---- MODULE Spec2Model ----
(***************************************************************************)
(* Model of the data pipeline of scm-fsim (src/data.py) and of the way     *)
(* BertForSimMatchModel.forward (src/models/bert_esim.py) reads the masks. *)
(*                                                                         *)
(* Two specifications share the variables:                                 *)
(*   SpecFeature : _text_pair_to_feature / _truncate_seq_pair, the         *)
(*                 collator (to_two_pair_feature, to_tensor,               *)
(*                 default_collate) and forward's mask reads;              *)
(*   SpecDataset : the construction routes of TripletTextDataset,          *)
(*                 augment and __getitem__.                                *)
(***************************************************************************)
EXTENDS Integers, Sequences, FiniteSets, TLC

(***************************************************************************)
(* Bounds                                                                  *)
(***************************************************************************)
\* longest text handed to _text_pair_to_feature directly
MaxTextLen == 3

\* longest text of a triplet handed to the collator
MaxExampleTextLen == 2

\* largest max_seq_length
MaxSeqLen == 5

\* most rows of a list, a table or a file
MaxRows == 1

\* largest state of the random generator used by df.sample
MaxSeed == 1

(***************************************************************************)
(* Values                                                                  *)
(***************************************************************************)
\* Python None where a text or a token list is expected.
NoneSeq == <<"None">>

\* A text is a sequence of characters; " " is whitespace.
Alphabet == {"x", "y", " "}

SeqsUpTo(S, n) == UNION {[1..k -> S] : k \in 0..n}

Texts == SeqsUpTo(Alphabet, MaxTextLen)

\* The texts of the triplets given to the collator.
ExampleTexts == SeqsUpTo(Alphabet, MaxExampleTextLen)

MaxLengths == 3..MaxSeqLen

\* Python truthiness of an Optional[str] / Optional[list].
Truthy(s) == s # NoneSeq /\ Len(s) > 0

(***************************************************************************)
(* Tokenizer capability: one token per non-whitespace character.           *)
(***************************************************************************)
IsTokenChar(ch) == ch # " "

Tokenize(text) == SelectSeq(text, IsTokenChar)

TokenId(tok) ==
    CASE tok = "[CLS]" -> 101
      [] tok = "[SEP]" -> 102
      [] tok = "x" -> 7
      [] tok = "y" -> 8
      [] OTHER -> 100

ConvertTokensToIds(tokens) == [i \in 1..Len(tokens) |-> TokenId(tokens[i])]

(***************************************************************************)
(* _truncate_seq_pair                                                      *)
(***************************************************************************)
\* Mutant: the tie goes to tokens_a (>= instead of >).
TruncateIter_TieToA(tokens_a, tokens_b) ==
    IF Len(tokens_a) >= Len(tokens_b)
    THEN <<Tail(tokens_a), tokens_b>>
    ELSE <<tokens_a, Tail(tokens_b)>>

\* One iteration of the loop body after the break test failed.
TruncateIter(tokens_a, tokens_b) ==
    IF Len(tokens_a) > Len(tokens_b)
    THEN <<Tail(tokens_a), tokens_b>>
    ELSE <<tokens_a, Tail(tokens_b)>>

RECURSIVE TruncateSeqPair(_, _, _)
TruncateSeqPair(tokens_a, tokens_b, max_length) ==
    IF Len(tokens_a) + Len(tokens_b) <= max_length
    THEN <<tokens_a, tokens_b>>
    ELSE LET p == TruncateIter(tokens_a, tokens_b)
         IN  TruncateSeqPair(p[1], p[2], max_length)

(***************************************************************************)
(* _text_pair_to_feature                                                   *)
(***************************************************************************)
\* Mutant: room is left for one special token only.
TruncateSingle_OffByOne(tokens_a, max_seq_length) ==
    IF Len(tokens_a) > max_seq_length - 1
    THEN SubSeq(tokens_a, Len(tokens_a) - (max_seq_length - 1) + 1, Len(tokens_a))
    ELSE tokens_a

\* tokens_a[len(tokens_a) - (max_seq_length - 2):] when it is too long.
TruncateSingle(tokens_a, max_seq_length) ==
    IF Len(tokens_a) > max_seq_length - 2
    THEN SubSeq(tokens_a, Len(tokens_a) - (max_seq_length - 2) + 1, Len(tokens_a))
    ELSE tokens_a

\* [0] * n ; an empty list when n <= 0.
Zeros(n) == [i \in 1..n |-> 0]

Ones(n) == [i \in 1..n |-> 1]

\* Mutant: [CLS] and the closing [SEP] are not counted as real tokens.
RealTokenMask_TextOnly(input_ids) == <<0>> \o Ones(Len(input_ids) - 2) \o <<0>>

\* input_mask = [1] * len(input_ids)  (line 201)
RealTokenMask(input_ids) == Ones(Len(input_ids))

\* Lines 191-213: assemble, convert, mask, pad, assert, return.
AssembleFeature(tokens_a, tokens_b, max_seq_length) ==
    LET tokens1 == <<"[CLS]">> \o tokens_a \o <<"[SEP]">>
        segs1 == Zeros(Len(tokens1))
        tokens == IF Truthy(tokens_b) THEN tokens1 \o tokens_b \o <<"[SEP]">> ELSE tokens1
        segs == IF Truthy(tokens_b) THEN segs1 \o Ones(Len(tokens_b) + 1) ELSE segs1
        ids == ConvertTokensToIds(tokens)
        mask == RealTokenMask(ids)
        padding == Zeros(max_seq_length - Len(ids))
        input_ids == ids \o padding
        input_mask == mask \o padding
        segment_ids == segs \o padding
    IN  IF /\ Len(input_ids) = max_seq_length
           /\ Len(input_mask) = max_seq_length
           /\ Len(segment_ids) = max_seq_length
        THEN [status |-> "ok", value |-> <<input_ids, segment_ids, input_mask>>]
        ELSE [status |-> "AssertionError", value |-> <<>>]

\* The whole function, as to_two_pair_feature calls it.
TextPairToFeature(text_a, text_b, max_seq_length) ==
    LET ta == Tokenize(text_a)
    IN  IF Truthy(text_b)
        THEN LET p == TruncateSeqPair(ta, Tokenize(text_b), max_seq_length - 3)
             IN  AssembleFeature(p[1], p[2], max_seq_length)
        ELSE AssembleFeature(TruncateSingle(ta, max_seq_length), NoneSeq, max_seq_length)

(***************************************************************************)
(* InputFeatures, to_two_pair_feature, the collator                        *)
(***************************************************************************)
\* InputFeatures(*t): positional parameters (input_ids, input_mask, segment_ids).
InputFeatures(t) ==
    [input_ids |-> t[1], input_mask |-> t[2], segment_ids |-> t[3]]

\* Mutant: the tuple follows the parameter order of InputFeatures.__init__.
ToTensor_MaskSecond(f) == <<f.input_ids, f.input_mask, f.segment_ids>>

\* to_tensor (lines 133-138): (input_ids, segment_ids, input_mask).
ToTensor(f) == <<f.input_ids, f.segment_ids, f.input_mask>>

\* to_two_pair_feature: the three builder outcomes; an AssertionError of the
\* builder propagates, otherwise the three InputFeatures objects are returned.
ToTwoPairFeature(ex, max_seq_length) ==
    LET a == TextPairToFeature(ex.text_a, NoneSeq, max_seq_length)
        b == TextPairToFeature(ex.text_b, NoneSeq, max_seq_length)
        c == TextPairToFeature(ex.text_c, NoneSeq, max_seq_length)
    IN  IF a.status = "ok" /\ b.status = "ok" /\ c.status = "ok"
        THEN [status |-> "ok",
              value |-> <<InputFeatures(a.value), InputFeatures(b.value),
                          InputFeatures(c.value)>>]
        ELSE [status |-> "AssertionError", value |-> <<>>]

\* The per-example body of three_pair_collate_fn, given the features f of
\* the example.
ExampleTensors(f, label) ==
    <<ToTensor(f[1]), ToTensor(f[2]), ToTensor(f[3]), <<label>>>>

\* default_collate: stack every leaf tensor along a new batch dimension.
StackTriple(ts, k) ==
    << [i \in 1..Len(ts) |-> ts[i][k][1]],
       [i \in 1..Len(ts) |-> ts[i][k][2]],
       [i \in 1..Len(ts) |-> ts[i][k][3]] >>

DefaultCollate(ts) ==
    << StackTriple(ts, 1), StackTriple(ts, 2), StackTriple(ts, 3),
       [i \in 1..Len(ts) |-> ts[i][4]] >>

(***************************************************************************)
(* BertForSimMatchModel.forward / siamese: the masks and the divisors      *)
(***************************************************************************)
RECURSIVE SumSeq(_)
SumSeq(s) == IF Len(s) = 0 THEN 0 ELSE Head(s) + SumSeq(Tail(s))

\* torch.sum(mask, dim=1, keepdim=True)
RowSums(m) == [i \in 1..Len(m) |-> SumSeq(m[i])]

\* a[1], b[1], c[1] of the Python tuples (0-based) and the two siamese calls.
ForwardMasks(a, b, c) ==
    LET a_mask == a[2]
        b_mask == b[2]
        c_mask == c[2]
    IN  [a_mask |-> a_mask, b_mask |-> b_mask, c_mask |-> c_mask,
         divisors |-> <<RowSums(a_mask), RowSums(b_mask), RowSums(a_mask), RowSums(c_mask)>>]

(***************************************************************************)
(* TripletTextDataset                                                      *)
(***************************************************************************)
\* Python None as a label; the marker of a key a dict does not have; the
\* value pandas stores for a missing cell.
PyNone == "None"

NoKey == "<no key>"

NaN == "NaN"

\* The texts of dataset rows, taken as opaque strings.
DataTexts == {"t1", "t2", "t3"}

\* "X" stands for any label string other than "B" and "C".
LabelValues == {"B", "C", "X"}

SeqsFromTo(S, m, n) == UNION {[1..k -> S] : k \in m..n}

\* __init__ (lines 12-22).
DatasetInit(text_a_list, text_b_list, text_c_list, label_list_arg) ==
    LET label_list == IF label_list_arg = NoneSeq \/ Len(label_list_arg) = 0
                      THEN [i \in 1..Len(text_a_list) |-> PyNone]
                      ELSE label_list_arg
    IN  IF /\ Len(label_list) = Len(text_a_list)
           /\ Len(label_list) = Len(text_b_list)
           /\ Len(label_list) = Len(text_c_list)
        THEN [status |-> "ok",
              text_a_list |-> text_a_list,
              text_b_list |-> text_b_list,
              text_c_list |-> text_c_list,
              label_list |-> [i \in 1..Len(label_list) |->
                                 IF label_list[i] = "B" THEN 0 ELSE 1]]
        ELSE [status |-> "AssertionError",
              text_a_list |-> <<>>, text_b_list |-> <<>>,
              text_c_list |-> <<>>, label_list |-> <<>>]

\* A DataFrame: the set of its columns and its rows; the label field of a
\* row is meaningful only when "label" is a column.
Column(df, c) ==
    [i \in 1..Len(df.rows) |->
        CASE c = "A" -> df.rows[i].A
          [] c = "B" -> df.rows[i].B
          [] c = "C" -> df.rows[i].C
          [] OTHER -> df.rows[i].label]

\* df["label"] = "B" when the column is missing (lines 41-42 and 49-50).
DefaultLabel(df) ==
    IF "label" \notin df.cols
    THEN [cols |-> df.cols \cup {"label"},
          rows |-> [i \in 1..Len(df.rows) |-> [df.rows[i] EXCEPT !.label = "B"]]]
    ELSE df

\* The argument lists from_dataframe hands to cls (lines 38-44).
DataframeArgs(df0) ==
    LET df == DefaultLabel(df0)
    IN  [text_a_list |-> Column(df, "A"),
         text_b_list |-> Column(df, "B"),
         text_c_list |-> Column(df, "C"),
         label_list |-> Column(df, "label")]

\* pd.DataFrame(list of dicts): a label column exists when some dict has the
\* key; a dict without it gets NaN in that column.
DataFrameOf(data) ==
    [cols |-> {"A", "B", "C"} \cup
              (IF \E i \in 1..Len(data) : data[i].label # NoKey THEN {"label"} ELSE {}),
     rows |-> [i \in 1..Len(data) |->
                 [A |-> data[i].A, B |-> data[i].B, C |-> data[i].C,
                  label |-> IF data[i].label = NoKey THEN NaN ELSE data[i].label]]]

\* json.loads of one line, the line being a sequence of <<key, value>> members.
HasKey(line, k) == \E j \in 1..Len(line) : line[j][1] = k

ValueOf(line, k) ==
    line[CHOOSE j \in 1..Len(line) :
            /\ line[j][1] = k
            /\ \A j2 \in 1..Len(line) : line[j2][1] = k => j2 <= j][2]

JsonLoads(line) ==
    [A |-> ValueOf(line, "A"), B |-> ValueOf(line, "B"), C |-> ValueOf(line, "C"),
     label |-> IF HasKey(line, "label") THEN ValueOf(line, "label") ELSE NoKey]

(***************************************************************************)
(* augment                                                                 *)
(***************************************************************************)
Cp1(r) == [A |-> r.A, B |-> r.C, C |-> r.B, label |-> "C"]

Cp2(r) == [A |-> r.B, B |-> r.A, C |-> r.C, label |-> "B"]

Cp3(r) == [A |-> r.B, B |-> r.C, C |-> r.A, label |-> "C"]

Cp4(r) == [A |-> r.C, B |-> r.A, C |-> r.C, label |-> "C"]

Cp5(r) == [A |-> r.C, B |-> r.C, C |-> r.A, label |-> "B"]

\* The five derived frames, in the order of lines 63-89.
Copies(df) ==
    << [i \in 1..Len(df.rows) |-> Cp1(df.rows[i])],
       [i \in 1..Len(df.rows) |-> Cp2(df.rows[i])],
       [i \in 1..Len(df.rows) |-> Cp3(df.rows[i])],
       [i \in 1..Len(df.rows) |-> Cp4(df.rows[i])],
       [i \in 1..Len(df.rows) |-> Cp5(df.rows[i])] >>

\* Mutant: the original frame is left out of the concatenation.
Concat_CopiesOnly(df, cps) == cps[1] \o cps[2] \o cps[3] \o cps[4] \o cps[5]

\* pd.concat([df, df_cp1, ..., df_cp5]).
Concat(df, cps) == df.rows \o cps[1] \o cps[2] \o cps[3] \o cps[4] \o cps[5]

\* DataFrame.drop_duplicates(): keep the first occurrence of every row.
RECURSIVE DropDuplicates(_)
DropDuplicates(rows) ==
    IF Len(rows) = 0 THEN <<>>
    ELSE LET init == DropDuplicates(SubSeq(rows, 1, Len(rows) - 1))
             last == rows[Len(rows)]
         IN  IF \E i \in 1..Len(init) : init[i] = last
             THEN init
             ELSE Append(init, last)

RemoveAt(rows, k) == SubSeq(rows, 1, k - 1) \o SubSeq(rows, k + 1, Len(rows))

\* DataFrame.sample(frac=1): a permutation of the rows fixed by the state of
\* the random generator.
RECURSIVE Sample(_, _)
Sample(rows, seed) ==
    IF Len(rows) = 0 THEN <<>>
    ELSE LET k == (seed % Len(rows)) + 1
         IN  <<rows[k]>> \o Sample(RemoveAt(rows, k), seed \div Len(rows))

Augment(df, seed) ==
    [cols |-> df.cols,
     rows |-> Sample(DropDuplicates(Concat(df, Copies(df))), seed)]

(***************************************************************************)
(* State                                                                   *)
(***************************************************************************)
VARIABLES
    pc,             \* position of the current call
    text_a,         \* _text_pair_to_feature: argument text_a
    text_b,         \* _text_pair_to_feature: argument text_b (or None)
    max_seq_length, \* max_seq_length / max_len of the current call
    tokens_a,       \* _text_pair_to_feature: local tokens_a
    tokens_b,       \* _text_pair_to_feature: local tokens_b (or None)
    ret,            \* _text_pair_to_feature: outcome
    batch,          \* three_pair_collate_fn: argument batch
    features,       \* the InputFeatures triples built for the batch
    tensors,        \* what three_pair_collate_fn returns
    fwd,            \* forward: a_mask, b_mask, c_mask and the siamese divisors
    route,          \* the construction route taken
    supplied,       \* whether the caller supplied labels on that route
    df_in,          \* augment: the frame it receives
    copies,         \* augment: df_cp1 .. df_cp5
    df_out,         \* augment: the frame it returns
    init_args,      \* the four lists __init__ receives
    dataset,        \* the TripletTextDataset object (or the assertion failure)
    item            \* the last __getitem__ call and its result

featureVars == <<text_a, text_b, max_seq_length, tokens_a, tokens_b, ret,
                 batch, features, tensors, fwd>>

datasetVars == <<route, supplied, df_in, copies, df_out, init_args, dataset, item>>

vars == <<pc, featureVars, datasetVars>>

NoRet == [status |-> "none", value |-> <<>>]

NoFwd == [a_mask |-> <<>>, b_mask |-> <<>>, c_mask |-> <<>>, divisors |-> <<>>]

NoFrame == [cols |-> {}, rows |-> <<>>]

NoArgs == [text_a_list |-> <<>>, text_b_list |-> <<>>, text_c_list |-> <<>>,
           label_list |-> <<>>]

NoDataset == [status |-> "none", text_a_list |-> <<>>, text_b_list |-> <<>>,
              text_c_list |-> <<>>, label_list |-> <<>>]

NoItem == [index |-> 0, value |-> <<>>]

FeatureIdle ==
    /\ text_a = <<>> /\ text_b = NoneSeq /\ max_seq_length = 0
    /\ tokens_a = <<>> /\ tokens_b = NoneSeq /\ ret = NoRet
    /\ batch = <<>> /\ features = <<>> /\ tensors = <<>> /\ fwd = NoFwd

DatasetIdle ==
    /\ route = "none" /\ supplied = FALSE
    /\ df_in = NoFrame /\ copies = <<>> /\ df_out = NoFrame
    /\ init_args = NoArgs /\ dataset = NoDataset /\ item = NoItem

(***************************************************************************)
(* SpecFeature                                                             *)
(***************************************************************************)
InitFeature == pc = "idle" /\ FeatureIdle /\ DatasetIdle

\* _text_pair_to_feature, lines 162-170: tokenize, then either enter
\* _truncate_seq_pair or cut the single sequence.
BuilderCall(ta, tb, msl) ==
    /\ pc = "idle"
    /\ text_a' = ta /\ text_b' = tb /\ max_seq_length' = msl
    /\ IF Truthy(tb)
       THEN /\ tokens_a' = Tokenize(ta)
            /\ tokens_b' = Tokenize(tb)
            /\ pc' = "truncating"
       ELSE /\ tokens_a' = TruncateSingle(Tokenize(ta), msl)
            /\ tokens_b' = NoneSeq
            /\ pc' = "assemble"
    /\ UNCHANGED <<ret, batch, features, tensors, fwd, datasetVars>>

\* One pass of the while loop of _truncate_seq_pair (lines 229-236).
TruncateStep ==
    /\ pc = "truncating"
    /\ IF Len(tokens_a) + Len(tokens_b) <= max_seq_length - 3
       THEN /\ pc' = "assemble"
            /\ UNCHANGED <<tokens_a, tokens_b>>
       ELSE /\ tokens_a' = TruncateIter(tokens_a, tokens_b)[1]
            /\ tokens_b' = TruncateIter(tokens_a, tokens_b)[2]
            /\ pc' = "truncating"
    /\ UNCHANGED <<text_a, text_b, max_seq_length, ret, batch, features, tensors,
                   fwd, datasetVars>>

\* _text_pair_to_feature, lines 191-213.
Assemble ==
    /\ pc = "assemble"
    /\ ret' = AssembleFeature(tokens_a, tokens_b, max_seq_length)
    /\ pc' = "returned"
    /\ UNCHANGED <<text_a, text_b, max_seq_length, tokens_a, tokens_b, batch,
                   features, tensors, fwd, datasetVars>>

\* three_pair_collate_fn (lines 99-120) on one batch.
Collate(b, max_len) ==
    LET fs == [i \in 1..Len(b) |-> ToTwoPairFeature(b[i], max_len)]
    IN  /\ pc = "idle"
        /\ batch' = b /\ max_seq_length' = max_len
        /\ IF \A i \in 1..Len(b) : fs[i].status = "ok"
           THEN /\ features' = [i \in 1..Len(b) |-> fs[i].value]
                /\ tensors' = DefaultCollate(
                       [i \in 1..Len(b) |-> ExampleTensors(fs[i].value, b[i].label)])
                /\ pc' = "collated"
           ELSE /\ UNCHANGED <<features, tensors>>
                /\ pc' = "AssertionError"
        /\ UNCHANGED <<text_a, text_b, tokens_a, tokens_b, ret, fwd, datasetVars>>

\* forward (lines 45-58) up to the two siamese calls and their divisors
\* (lines 114-117).
Forward ==
    /\ pc = "collated"
    /\ fwd' = ForwardMasks(tensors[1], tensors[2], tensors[3])
    /\ pc' = "forwarded"
    /\ UNCHANGED <<text_a, text_b, max_seq_length, tokens_a, tokens_b, ret, batch,
                   features, tensors, datasetVars>>

Examples ==
    [text_a : ExampleTexts, text_b : ExampleTexts, text_c : ExampleTexts, label : {0, 1}]

NextFeature ==
    \/ /\ pc = "idle"
       /\ \E ta \in Texts, tb \in Texts \cup {NoneSeq}, msl \in MaxLengths :
             BuilderCall(ta, tb, msl)
    \/ TruncateStep
    \/ Assemble
    \/ /\ pc = "idle"
       /\ \E ex \in Examples, msl \in MaxLengths : Collate(<<ex>>, msl)
    \/ Forward

SpecFeature == InitFeature /\ [][NextFeature]_vars

(***************************************************************************)
(* SpecDataset                                                             *)
(***************************************************************************)
InitDataset == pc = "init" /\ FeatureIdle /\ DatasetIdle

\* cls(text_a_list, text_b_list, text_c_list, label_list): every route ends here.
CallInit(args) ==
    /\ init_args' = args
    /\ dataset' = DatasetInit(args.text_a_list, args.text_b_list,
                              args.text_c_list, args.label_list)
    /\ pc' = IF dataset'.status = "ok" THEN "constructed" ELSE "AssertionError"

\* TripletTextDataset(text_a_list, text_b_list, text_c_list, label_list).
Construct(al, bl, cl, ll) ==
    /\ pc = "init"
    /\ route' = "lists"
    /\ supplied' = (ll # NoneSeq /\ Len(ll) > 0)
    /\ CallInit([text_a_list |-> al, text_b_list |-> bl, text_c_list |-> cl,
                 label_list |-> ll])
    /\ UNCHANGED <<df_in, copies, df_out, item, featureVars>>

\* TripletTextDataset.from_dataframe(df).
FromDataframe(df) ==
    /\ pc = "init"
    /\ route' = "dataframe"
    /\ supplied' = ("label" \in df.cols)
    /\ CallInit(DataframeArgs(df))
    /\ UNCHANGED <<df_in, copies, df_out, item, featureVars>>

\* The body of from_dict_list (lines 48-53).
DictListBody(data, use_augment, seed) ==
    LET df == DefaultLabel(DataFrameOf(data))
    IN  /\ supplied' = (\E i \in 1..Len(data) : data[i].label # NoKey)
        /\ IF use_augment
           THEN /\ df_in' = df
                /\ copies' = Copies(df)
                /\ df_out' = Augment(df, seed)
                /\ CallInit(DataframeArgs(df_out'))
           ELSE /\ UNCHANGED <<df_in, copies, df_out>>
                /\ CallInit(DataframeArgs(df))
        /\ UNCHANGED <<item, featureVars>>

\* TripletTextDataset.from_dict_list(data, use_augment).
FromDictList(data, use_augment, seed) ==
    /\ pc = "init"
    /\ route' = "dict_list"
    /\ DictListBody(data, use_augment, seed)

\* TripletTextDataset.from_jsons(json_lines_file, use_augment).
FromJsons(file, use_augment, seed) ==
    /\ pc = "init"
    /\ route' = "jsons"
    /\ DictListBody([i \in 1..Len(file) |-> JsonLoads(file[i])], use_augment, seed)

\* dataset[index] (0-based in Python, 1-based here); the object is not
\* changed by it, so one read is followed per run.
GetItem(index) ==
    /\ pc = "constructed"
    /\ index \in 1..Len(dataset.label_list)
    /\ item' = [index |-> index,
                value |-> <<dataset.text_a_list[index], dataset.text_b_list[index],
                            dataset.text_c_list[index], dataset.label_list[index]>>]
    /\ pc' = "read"
    /\ UNCHANGED <<route, supplied, df_in, copies, df_out, init_args, dataset,
                   featureVars>>

\* Inputs.
TextLists == SeqsUpTo(DataTexts, MaxRows)

LabelLists == {NoneSeq} \cup SeqsUpTo(LabelValues, MaxRows)

LabelledRows == [A : DataTexts, B : DataTexts, C : DataTexts, label : LabelValues]

UnlabelledRows == [A : DataTexts, B : DataTexts, C : DataTexts, label : {NaN}]

Frames ==
    {[cols |-> {"A", "B", "C", "label"}, rows |-> r] :
        r \in SeqsUpTo(LabelledRows, MaxRows)}
    \cup
    {[cols |-> {"A", "B", "C"}, rows |-> r] :
        r \in SeqsUpTo(UnlabelledRows, MaxRows)}

Dicts == [A : DataTexts, B : DataTexts, C : DataTexts, label : LabelValues \cup {NoKey}]

DictLists == SeqsFromTo(Dicts, 1, MaxRows)

\* The line of a JSON-lines file that holds the record d.
JsonLine(d) ==
    << <<"A", d.A>>, <<"B", d.B>>, <<"C", d.C>> >>
    \o (IF d.label = NoKey THEN <<>> ELSE << <<"label", d.label>> >>)

JsonFiles == {[i \in 1..Len(data) |-> JsonLine(data[i])] : data \in DictLists}

Seeds == 0..MaxSeed

NextDataset ==
    \/ /\ pc = "init"
       /\ \E al \in TextLists, bl \in TextLists, cl \in TextLists, ll \in LabelLists :
             Construct(al, bl, cl, ll)
    \/ /\ pc = "init"
       /\ \E df \in Frames : FromDataframe(df)
    \/ /\ pc = "init"
       /\ \E data \in DictLists, use_augment \in BOOLEAN, seed \in Seeds :
             FromDictList(data, use_augment, seed)
    \/ /\ pc = "init"
       /\ \E file \in JsonFiles, use_augment \in BOOLEAN, seed \in Seeds :
             FromJsons(file, use_augment, seed)
    \/ /\ pc = "constructed"
       /\ \E index \in 1..Len(dataset.label_list) : GetItem(index)

SpecDataset == InitDataset /\ [][NextDataset]_vars

(***************************************************************************)
(* Properties                                                              *)
(***************************************************************************)
Min(a, b) == IF a <= b THEN a ELSE b

\* The number of positions that hold [CLS], a text token or [SEP] when a
\* text is encoded alone.
RealTokens(text, max_len) == Min(Len(Tokenize(text)), max_len - 2) + 2

\* m has max_len entries, 1 on the first n of them and 0 on the others.
IsMaskOf(m, n, max_len) ==
    /\ Len(m) = max_len
    /\ \A i \in 1..max_len : m[i] = (IF i <= n THEN 1 ELSE 0)

AllZero(m, max_len) ==
    /\ Len(m) = max_len
    /\ \A i \in 1..max_len : m[i] = 0

SingleText == ~Truthy(text_b)

\* C1 -- Padding invariant: whatever the texts (a secondary text or none,
\* empty token lists included) and max_seq_length >= 3, _text_pair_to_feature
\* passes its three assertions and returns three lists of exactly
\* max_seq_length entries.
C1_PaddingInvariant ==
    pc = "returned" =>
        /\ ret.status = "ok"
        /\ Len(ret.value[1]) = max_seq_length
        /\ Len(ret.value[2]) = max_seq_length
        /\ Len(ret.value[3]) = max_seq_length

\* A pair call whose tokens did not fit the budget has returned.
C1_Witness ==
    /\ pc = "returned"
    /\ Truthy(text_b)
    /\ Len(Tokenize(text_a)) + Len(Tokenize(text_b)) > max_seq_length - 3
    /\ ret.status = "ok"

\* C2 as stated -- for a single text the mask returned by
\* _text_pair_to_feature has min(len(tokenize(text)), max_seq_length-2) + 1 ones.
C2_MaskSumPlusOne ==
    (pc = "returned" /\ SingleText) =>
        /\ ret.status = "ok"
        /\ SumSeq(ret.value[3]) = Min(Len(Tokenize(text_a)), max_seq_length - 2) + 1

\* C2 amended -- for a single text the mask returned by _text_pair_to_feature
\* has min(len(tokenize(text)), max_seq_length-2) + 2 ones: the kept tokens,
\* [CLS] and [SEP].
C2_MaskSumPlusTwo ==
    (pc = "returned" /\ SingleText) =>
        /\ ret.status = "ok"
        /\ SumSeq(ret.value[3]) = Min(Len(Tokenize(text_a)), max_seq_length - 2) + 2

\* A single text with more tokens than fit has been encoded.
C2_Witness ==
    /\ pc = "returned"
    /\ SingleText
    /\ Len(Tokenize(text_a)) > max_seq_length - 2
    /\ ret.status = "ok"

\* C3 -- every InputFeatures object returned by to_two_pair_feature has, in
\* its field input_mask, 1 exactly at the real-token positions and, in its
\* field segment_ids, 0 everywhere.
C3_TokenFeatureFields ==
    pc \in {"collated", "forwarded"} =>
        \A i \in 1..Len(batch) :
            LET f == features[i]
                ex == batch[i]
            IN  /\ IsMaskOf(f[1].input_mask, RealTokens(ex.text_a, max_seq_length), max_seq_length)
                /\ IsMaskOf(f[2].input_mask, RealTokens(ex.text_b, max_seq_length), max_seq_length)
                /\ IsMaskOf(f[3].input_mask, RealTokens(ex.text_c, max_seq_length), max_seq_length)
                /\ AllZero(f[1].segment_ids, max_seq_length)
                /\ AllZero(f[2].segment_ids, max_seq_length)
                /\ AllZero(f[3].segment_ids, max_seq_length)

PairCall == pc \in {"truncating", "assemble", "returned"} /\ Truthy(text_b)

Budget == max_seq_length - 3

EqualStart ==
    /\ PairCall
    /\ Len(Tokenize(text_a)) = Len(Tokenize(text_b))
    /\ Len(Tokenize(text_a)) + Len(Tokenize(text_b)) > Budget

C4_Step ==
    /\ (pc = "truncating" /\ pc' = "truncating") =>
          IF Len(tokens_a) > Len(tokens_b)
          THEN tokens_a' = Tail(tokens_a) /\ tokens_b' = tokens_b
          ELSE tokens_b' = Tail(tokens_b) /\ tokens_a' = tokens_a
    /\ (pc = "truncating" /\ pc' = "assemble") =>
          /\ Len(tokens_a) + Len(tokens_b) <= Budget
          /\ tokens_a' = tokens_a /\ tokens_b' = tokens_b

C4_EqualStart ==
    EqualStart =>
        /\ (Len(tokens_a) + Len(tokens_b) = 2 * Len(Tokenize(text_a)) - 1) =>
              /\ tokens_a = Tokenize(text_a)
              /\ tokens_b = Tail(Tokenize(text_b))
        /\ pc \in {"assemble", "returned"} =>
              /\ Len(tokens_a) + Len(tokens_b) <= Budget
              /\ Len(tokens_a) - Len(tokens_b) \in {0, 1}

\* C4 -- every pass of _truncate_seq_pair that removes a token removes the
\* first token of tokens_a when tokens_a is strictly longer and the first
\* token of tokens_b otherwise, and the loop is left only within the budget;
\* so for inputs of equal length over the budget the first removal is from
\* tokens_b, and the result is within the budget with len(a)-len(b) in {0,1}.
C4_TieBreak == [][C4_Step]_vars /\ []C4_EqualStart

\* Two token lists of equal length over the budget have been truncated.
C4_Witness ==
    /\ EqualStart
    /\ pc = "assemble"
    /\ Len(Tokenize(text_a)) = 2
    /\ Len(tokens_a) = 1 /\ Len(tokens_b) = 0

\* C10 -- after to_two_pair_feature, to_tensor and the collator, the vector
\* forward reads as the mask of A, B and C (element 1 of each tensor tuple)
\* has 1 exactly at the real-token positions, and every divisor of the masked
\* average in siamese is at least 1.
C10_NoDivisionByZero ==
    pc = "forwarded" =>
        \A i \in 1..Len(batch) :
            /\ IsMaskOf(fwd.a_mask[i], RealTokens(batch[i].text_a, max_seq_length), max_seq_length)
            /\ IsMaskOf(fwd.b_mask[i], RealTokens(batch[i].text_b, max_seq_length), max_seq_length)
            /\ IsMaskOf(fwd.c_mask[i], RealTokens(batch[i].text_c, max_seq_length), max_seq_length)
            /\ \A k \in 1..4 : fwd.divisors[k][i] >= 1

\* forward has read the masks of a triplet with an empty text, a text of
\* whitespace only and a text that was cut.
C10_Witness ==
    /\ pc = "forwarded"
    /\ batch[1].text_a = <<>>
    /\ batch[1].text_b = <<" ">>
    /\ Len(Tokenize(batch[1].text_c)) > max_seq_length - 2
    /\ fwd.divisors[1][1] = 2

AugmentRan == Len(copies) = 5

Built == pc \in {"constructed", "read"}

NoDuplicates(rows) ==
    \A i \in 1..Len(rows) : \A j \in 1..Len(rows) : rows[i] = rows[j] => i = j

Occurrences(r, t) ==
    (IF r.A = t THEN 1 ELSE 0) + (IF r.B = t THEN 1 ELSE 0) + (IF r.C = t THEN 1 ELSE 0)

IsRearrangement(r, q) == \A t \in DataTexts : Occurrences(r, t) = Occurrences(q, t)

\* C6 -- the texts (A,B,C) of every row augment returns are a rearrangement
\* of the three texts of one input row, each occurring exactly once.
C6_VariantsArePermutations ==
    AugmentRan =>
        \A j \in 1..Len(df_out.rows) :
            \E i \in 1..Len(df_in.rows) : IsRearrangement(df_out.rows[j], df_in.rows[i])

Opposite(label) == IF label = "B" THEN "C" ELSE "B"

\* C7 -- whatever the label (B or C) of an input row, the derived row that
\* keeps A and exchanges the B and C texts (df_cp1) carries the opposite label.
C7_SwapFlipsLabel ==
    AugmentRan =>
        \A i \in 1..Len(df_in.rows) :
            df_in.rows[i].label \in {"B", "C"} =>
                /\ copies[1][i].A = df_in.rows[i].A
                /\ copies[1][i].B = df_in.rows[i].C
                /\ copies[1][i].C = df_in.rows[i].B
                /\ copies[1][i].label = Opposite(df_in.rows[i].label)

\* C8 -- on a route where the caller supplies no labels (and no augmentation
\* is asked for) every example of the dataset has numeric label 0.
C8_DefaultLabelIsB ==
    (Built /\ ~supplied /\ ~AugmentRan) =>
        \A i \in 1..Len(dataset.label_list) : dataset.label_list[i] = 0

\* C9 -- a dataset built with labels holds only labels "B" and "C" (any other
\* value was rejected), and dataset[index] returns 0 for "B" and 1 for "C".
C9_LabelMapping ==
    (Built /\ supplied) =>
        /\ \A i \in 1..Len(init_args.label_list) : init_args.label_list[i] \in {"B", "C"}
        /\ pc = "read" =>
              item.value[4] = (IF init_args.label_list[item.index] = "B" THEN 0 ELSE 1)

====
